---- MODULE Spec2Model ----
(***************************************************************************)
(* A model of the Ambilight LED output driver and its command interface:   *)
(*   cpp/src/led_driver.cpp  LEDDriver (colour state, gamma, smoothing,    *)
(*                           bus write, the ASCII command handler)         *)
(*   cpp/src/ipc_server.cpp  runIPCServer (acceptor, one detached thread   *)
(*                           per connection, line reassembly)              *)
(*   cpp/src/main.cpp        main (signal flag, frame loop, shutdown)      *)
(*                                                                         *)
(* Numbers.  The code's floats are modelled in fixed point:                *)
(*   - a value of lastFloatBuffer_ is an integer count of 1/TUnit;        *)
(*   - gamma_, brightness_, smoothingAlpha_ and every parsed decimal is   *)
(*     an integer count of 1/Milli.                                        *)
(* Every driver method is an operator that yields the method's sequence of *)
(* primitive steps (lock, per-element loop bodies, unlock, device write),  *)
(* in the order of the source; a thread executes one primitive step per    *)
(* action, so threads interleave exactly where the code lets them.         *)
(***************************************************************************)
EXTENDS Integers, Sequences, FiniteSets, TLC

(***************************************************************************)
(* Bounds of the model                                                     *)
(***************************************************************************)
\* number of LEDs of the strip (numLeds_; main.cpp uses 60)
NumLeds == 2
\* reads a connection performs before its peer closes (EOF may come sooner)
MaxReads == 2
\* iterations of the frame loop of main
MaxTicks == 1
\* driver calls a thread makes when the threads call the driver directly
MaxCalls == 2
\* consecutive calls of doSmoothing with one and the same input
MaxSmooth == 64

(***************************************************************************)
(* Program constants                                                       *)
(***************************************************************************)
\* resolution of a float of lastFloatBuffer_: 2^16 (a float32 has a 24 bit
\* significand, 8 bits of which hold the integer part of a value below 256)
TUnit == 65536
\* resolution of parsed decimals and of gamma_/brightness_/smoothingAlpha_
Milli == 1000
\* gamma_(2.2f), brightness_(1.0f), smoothingAlpha_(0.25f)
DefaultGamma == 2200
DefaultBrightness == 1000
DefaultAlpha == 250
\* setGamma ignores gamma <= 0.01f
MinGamma == 10
\* the file descriptor open() returned for the SPI device, and the closed one
OpenFd == 3
ClosedFd == -1
\* BRIGHT: an integer above 1 is a percentage
PercentDiv == 100

None == "none"

(***************************************************************************)
(* Characters and strings.  A std::string is a sequence of one-character   *)
(* strings.                                                                *)
(***************************************************************************)
NL == "\n"
SP == " "
Digits == <<"0", "1", "2", "3", "4", "5", "6", "7", "8", "9">>
DigitSet == {Digits[i] : i \in 1..10}
DigitVal(c) == (CHOOSE i \in 1..10 : Digits[i] = c) - 1
\* std::isspace of the "C" locale, over the characters the inputs use
IsSpace(c) == c \in {SP, NL, "\t", "\r"}

Min(a, b) == IF a < b THEN a ELSE b
\* std::clamp(v, lo, hi)
Clamp(v, lo, hi) == IF v < lo THEN lo ELSE IF v > hi THEN hi ELSE v

\* s.substr(from) with from counted from 1; <<>> past the end
Drop(s, k) == IF k >= Len(s) THEN <<>> ELSE SubSeq(s, k + 1, Len(s))
Take(s, k) == IF k <= 0 THEN <<>> ELSE SubSeq(s, 1, Min(k, Len(s)))

\* s.find(c): the first position (from 1) of c in s, 0 for npos
Find(s, c) ==
    IF \E i \in 1..Len(s) : s[i] = c
    THEN CHOOSE i \in 1..Len(s) : s[i] = c /\ \A j \in 1..(i - 1) : s[j] # c
    ELSE 0

(***************************************************************************)
(* Formatted extraction from a std::istringstream.  A stream is the rest   *)
(* of the characters; every extractor yields [ok, val, rest].  After a     *)
(* failed extraction the stream is in the fail state and every later       *)
(* extraction fails (the callers test the whole chain `iss >> a >> b`).    *)
(***************************************************************************)
\* skip leading white space (the skipws of operator>>)
SkipWs(s) ==
    IF \E i \in 1..Len(s) : ~IsSpace(s[i])
    THEN Drop(s, (CHOOSE i \in 1..Len(s) :
                     ~IsSpace(s[i]) /\ \A j \in 1..(i - 1) : IsSpace(s[j])) - 1)
    ELSE <<>>

\* length of the longest prefix of s made of characters of set cs
SpanLen(s, cs) ==
    IF \E i \in 1..Len(s) : s[i] \notin cs
    THEN (CHOOSE i \in 1..Len(s) :
             s[i] \notin cs /\ \A j \in 1..(i - 1) : s[j] \in cs) - 1
    ELSE Len(s)

\* the value of a string of digits
RECURSIVE DigitsVal(_)
DigitsVal(ds) ==
    IF ds = <<>> THEN 0
    ELSE 10 * DigitsVal(Take(ds, Len(ds) - 1)) + DigitVal(ds[Len(ds)])

\* iss >> token (std::string): the next white-space delimited word
ReadToken(s) ==
    LET t == SkipWs(s)
        n == SpanLen(t, {t[i] : i \in 1..Len(t)} \ {SP, NL, "\t", "\r"})
    IN  [ok |-> n > 0, val |-> Take(t, n), rest |-> Drop(t, n)]

\* an optional sign at the head of t: [neg, rest]
Sign(t) ==
    IF t # <<>> /\ t[1] \in {"-", "+"}
    THEN [neg |-> t[1] = "-", rest |-> Drop(t, 1)]
    ELSE [neg |-> FALSE, rest |-> t]

\* iss >> int: white space, an optional sign, digits; the extraction stops
\* at the first character that is no digit and fails when there is no digit
ReadInt(s) ==
    LET sg == Sign(SkipWs(s))
        n  == SpanLen(sg.rest, DigitSet)
        v  == DigitsVal(Take(sg.rest, n))
    IN  [ok |-> n > 0, val |-> IF sg.neg THEN -v ELSE v, rest |-> Drop(sg.rest, n)]

\* the value, in 1/Milli, of the fraction digits fs (the digits past the
\* third are cut: the inputs of the model carry at most three)
FracMilli(fs) ==
    LET f == Take(fs, 3)
    IN  CASE Len(f) = 0 -> 0
          [] Len(f) = 1 -> 100 * DigitsVal(f)
          [] Len(f) = 2 -> 10 * DigitsVal(f)
          [] OTHER      -> DigitsVal(f)

\* a decimal number at the head of t: sign, digits, an optional '.' and
\* digits; at least one digit is needed.  The value is in 1/Milli.
Decimal(t) ==
    LET sg   == Sign(t)
        n    == SpanLen(sg.rest, DigitSet)
        r1   == Drop(sg.rest, n)
        dot  == r1 # <<>> /\ r1[1] = "."
        r2   == IF dot THEN Drop(r1, 1) ELSE r1
        m    == IF dot THEN SpanLen(r2, DigitSet) ELSE 0
        v    == Milli * DigitsVal(Take(sg.rest, n)) + FracMilli(Take(r2, m))
    IN  [ok   |-> n + m > 0,
         val  |-> IF sg.neg THEN -v ELSE v,
         rest |-> IF n + m > 0 THEN Drop(r2, m) ELSE t]

\* iss >> float
ReadFloat(s) == Decimal(SkipWs(s))
\* std::stof(val): strtof skips white space and converts the longest prefix
\* that is a number; with no such prefix it throws std::invalid_argument
Stof(val) == Decimal(SkipWs(val))
\* std::stoi(val): strtol, base 10
Stoi(val) == ReadInt(val)

(***************************************************************************)
(* The threads of the process                                              *)
(***************************************************************************)
\* the per-connection threads runIPCServer detaches
Conns == {"c1", "c2"}
\* the threads that call into the LEDDriver
Callers == {"main"} \cup Conns
Threads == {"main", "ipc", "py"} \cup Conns

\* indices of buffer_ and lastFloatBuffer_ (numLeds_ * 3 elements, from 1)
Size == NumLeds * 3
Idx == 1..Size

VARIABLES
    \* ---- LEDDriver
    lastFloatBuffer_,   \* smoothing accumulator, Size values in 1/TUnit
    buffer_,            \* bus-ready bytes, Size values in 0..255
    gammaLUT_,          \* the 256 entry table (<<>> before the first build)
    gamma_,             \* in 1/Milli
    brightness_,        \* in 1/Milli
    smoothingAlpha_,    \* in 1/Milli
    spiFd_,             \* OpenFd or ClosedFd
    mutex_,             \* [owner, depth]: the std::mutex and who holds it
    \* ---- threads
    running,            \* std::atomic<bool> running of main.cpp
    pc,                 \* control location of every thread
    prog,               \* per caller: the primitive steps left of its driver call
    blocked,            \* callers that wait for ever in mutex_.lock()
    cmd,                \* per connection: std::string cmd, the accumulator
    line,               \* per connection: std::string line handed to handleCommand
    reads,              \* per connection: reads done
    ticks,              \* frame loop iterations done
    \* ---- observations
    tx,                 \* per caller: the bytes its write() has taken so far
    sent,               \* per caller: frames written during its current call
    seen,               \* per caller: what its STATUS has read so far
    live,               \* per caller: configurations in effect during its STATUS
    snap,               \* per caller: what buffer_ has been during its write()
    bufTable,           \* per byte of buffer_: gamma of the table that made it
    stream,             \* per connection: every byte read so far (where recorded)
    dispatched          \* per connection: every line handed to handleCommand
                        \* (where recorded)

drvVars == <<lastFloatBuffer_, buffer_, gammaLUT_, gamma_, brightness_,
             smoothingAlpha_, spiFd_, bufTable>>
thrVars == <<running, pc, prog, blocked, cmd, line, reads, ticks>>
obsVars == <<tx, sent, seen, live, snap>>
logVars == <<stream, dispatched>>
vars == <<drvVars, mutex_, thrVars, obsVars, logVars>>

(***************************************************************************)
(* Primitive steps.  I(op, arg) is one step of a driver method.            *)
(***************************************************************************)
I(op, arg) == [op |-> op, arg |-> arg]
LockI == I("lock", <<>>)
UnlockI == I("unlock", <<>>)

\* static inline uint8_t clamp255(int v)
clamp255(v) == IF v < 0 THEN 0 ELSE IF v > 255 THEN 255 ELSE v

\* void LEDDriver::applyGammaAndBrightness(): the lock_guard, the loop over
\* buffer_ (one step per element), the release at the end of the scope
applyGammaAndBrightness ==
    <<LockI>> \o [i \in Idx |-> I("shape", <<i>>)] \o <<UnlockI>>

\* void LEDDriver::doSmoothing(newbuf): the size test and the EMA loop run
\* under the lock_guard
doSmoothing(newbuf) == <<LockI, I("smooth", newbuf), UnlockI>>

\* void LEDDriver::setAll(r, g, b): applyGammaAndBrightness() is called with
\* the lock_guard of setAll still in scope
setAll(r, g, b) ==
    <<LockI, I("setall", <<r, g, b>>)>> \o applyGammaAndBrightness \o <<UnlockI>>

\* void LEDDriver::setPixel(idx, r, g, b): the range test precedes the lock
setPixel(idx, r, g, b) ==
    IF idx < 0 \/ idx >= NumLeds THEN <<>>
    ELSE <<LockI, I("setpix", <<idx, r, g, b>>)>> \o applyGammaAndBrightness
         \o <<UnlockI>>

\* void LEDDriver::show(): the reshape, then the test of spiFd_, write() and
\* usleep(LATCH_US), all three outside any lock of show's own
show ==
    applyGammaAndBrightness \o [i \in Idx |-> I("write", <<i>>)] \o <<I("latch", <<>>)>>

\* void LEDDriver::clear(): both zeroing loops and show() under the lock_guard
clear ==
    <<LockI, I("zerofloat", <<>>)>> \o [i \in Idx |-> I("zerobuf", <<i>>)]
    \o show \o <<UnlockI>>

\* a setGamma that rebuilds the table and reshapes without taking mutex_
\* (the variant the critical section of setGamma rules out)
setGamma_NoLock(gamma) ==
    IF gamma <= MinGamma THEN <<>>
    ELSE <<I("buildlut", <<gamma>>)>> \o [i \in Idx |-> I("shape", <<i>>)]

\* void LEDDriver::setGamma(gamma): the threshold test precedes the lock
setGamma(gamma) ==
    IF gamma <= MinGamma THEN <<>>
    ELSE <<LockI, I("buildlut", <<gamma>>)>> \o applyGammaAndBrightness \o <<UnlockI>>

\* void LEDDriver::setBrightness(brightness)
setBrightness(brightness) ==
    <<LockI, I("setbright", <<Clamp(brightness, 0, Milli)>>)>>
    \o applyGammaAndBrightness \o <<UnlockI>>

\* setSmoothingAlpha without the std::clamp of line 233
setSmoothingAlpha_NoClamp(alpha) ==
    <<LockI, I("setalpha", <<alpha>>), UnlockI>>

\* void LEDDriver::setSmoothingAlpha(alpha)
setSmoothingAlpha(alpha) ==
    <<LockI, I("setalpha", <<Clamp(alpha, 0, Milli)>>), UnlockI>>

\* the body of LEDDriver::LEDDriver after openSPI()
Constructor == <<I("buildlut", <<DefaultGamma>>)>> \o clear \o show

\* LEDDriver::~LEDDriver()
Destructor == clear \o show \o <<I("closespi", <<>>)>>

(***************************************************************************)
(* handleCommand                                                           *)
(***************************************************************************)
COLOR_ == <<"C", "O", "L", "O", "R">>
PIX_ == <<"P", "I", "X">>
BRIGHT_ == <<"B", "R", "I", "G", "H", "T">>
GAMMA_ == <<"G", "A", "M", "M", "A">>
SMOOTH_ == <<"S", "M", "O", "O", "T", "H">>
SHOW_ == <<"S", "H", "O", "W">>
CLEAR_ == <<"C", "L", "E", "A", "R">>
STATUS_ == <<"S", "T", "A", "T", "U", "S">>

\* a COLOR that fills newbuf in the order green, red, blue
ColorBuf_GRB(r, g, b) ==
    [i \in Idx |-> CASE i % 3 = 1 -> clamp255(g)
                     [] i % 3 = 2 -> clamp255(r)
                     [] OTHER     -> clamp255(b)]

\* COLOR: newbuf holds clamp255(r), clamp255(g), clamp255(b) for every LED
ColorBuf(r, g, b) ==
    [i \in Idx |-> CASE i % 3 = 1 -> clamp255(r)
                     [] i % 3 = 2 -> clamp255(g)
                     [] OTHER     -> clamp255(b)]

\* a BRIGHT branch that takes every integer from 1 up as a percentage
Bright_PercentFromOne(val) ==
    IF Find(val, ".") # 0
    THEN LET f == Stof(val)
         IN  IF f.ok THEN setBrightness(f.val) \o applyGammaAndBrightness \o show
             ELSE <<>>
    ELSE LET bi == Stoi(val)
         IN  IF ~bi.ok THEN <<>>
             ELSE (IF bi.val >= 1
                   THEN setBrightness(Clamp((bi.val * Milli) \div PercentDiv, 0, Milli))
                   ELSE setBrightness(Clamp(bi.val * Milli, 0, Milli)))
                  \o applyGammaAndBrightness \o show

\* the BRIGHT branch: the try block; a std::stof or std::stoi that throws is
\* swallowed by catch (...)
Bright(val) ==
    IF Find(val, ".") # 0
    THEN LET f == Stof(val)
         IN  IF f.ok THEN setBrightness(f.val) \o applyGammaAndBrightness \o show
             ELSE <<>>
    ELSE LET bi == Stoi(val)
         IN  IF ~bi.ok THEN <<>>
             ELSE (IF bi.val > 1
                   THEN setBrightness(Clamp((bi.val * Milli) \div PercentDiv, 0, Milli))
                   ELSE setBrightness(Clamp(bi.val * Milli, 0, Milli)))
                  \o applyGammaAndBrightness \o show

\* void LEDDriver::handleCommand(cmd): the steps the call performs
handleCommand(c) ==
    LET tk == ReadToken(c)
    IN  IF ~tk.ok THEN <<>>
        ELSE CASE tk.val = COLOR_ ->
                   LET r == ReadInt(tk.rest)
                       g == ReadInt(r.rest)
                       b == ReadInt(g.rest)
                   IN  IF r.ok /\ g.ok /\ b.ok
                       THEN doSmoothing(ColorBuf(r.val, g.val, b.val))
                            \o applyGammaAndBrightness \o show
                       ELSE <<>>
               [] tk.val = PIX_ ->
                   LET ix == ReadInt(tk.rest)
                       r  == ReadInt(ix.rest)
                       g  == ReadInt(r.rest)
                       b  == ReadInt(g.rest)
                   IN  IF ix.ok /\ r.ok /\ g.ok /\ b.ok
                       THEN setPixel(ix.val, clamp255(r.val), clamp255(g.val),
                                     clamp255(b.val)) \o show
                       ELSE <<>>
               [] tk.val = BRIGHT_ ->
                   LET v == ReadToken(tk.rest)
                   IN  IF v.ok THEN Bright(v.val) ELSE <<>>
               [] tk.val = GAMMA_ ->
                   LET g == ReadFloat(tk.rest)
                   IN  IF g.ok THEN setGamma(g.val) \o applyGammaAndBrightness \o show
                       ELSE <<>>
               [] tk.val = SMOOTH_ ->
                   LET a == ReadFloat(tk.rest)
                   IN  IF a.ok THEN setSmoothingAlpha(a.val) ELSE <<>>
               [] tk.val = SHOW_ -> show
               [] tk.val = CLEAR_ -> clear
               [] tk.val = STATUS_ ->
                   <<I("rdbright", <<>>), I("rdgamma", <<>>), I("rdalpha", <<>>)>>
               [] OTHER -> <<>>

(***************************************************************************)
(* The gamma table                                                         *)
(***************************************************************************)
\* (uint8_t)(powf(i / 255.0f, 2.2f) * 255.0f) for i = 0..255, as float32
\* arithmetic gives it
Pow22 ==
   <<
      0, 0, 0, 0, 0, 0, 0, 0, 0, 0, 0, 0, 0, 0, 0, 0,
      0, 0, 0, 0, 0, 1, 1, 1, 1, 1, 1, 1, 1, 2, 2, 2,
      2, 2, 3, 3, 3, 3, 3, 4, 4, 4, 4, 5, 5, 5, 5, 6,
      6, 6, 7, 7, 7, 8, 8, 8, 9, 9, 9, 10, 10, 10, 11, 11,
      12, 12, 13, 13, 13, 14, 14, 15, 15, 16, 16, 17, 17, 18, 18, 19,
      19, 20, 21, 21, 22, 22, 23, 23, 24, 25, 25, 26, 27, 27, 28, 29,
      29, 30, 31, 31, 32, 33, 33, 34, 35, 36, 36, 37, 38, 39, 40, 40,
      41, 42, 43, 44, 45, 45, 46, 47, 48, 49, 50, 51, 52, 53, 54, 55,
      55, 56, 57, 58, 59, 60, 61, 62, 63, 65, 66, 67, 68, 69, 70, 71,
      72, 73, 74, 75, 77, 78, 79, 80, 81, 82, 84, 85, 86, 87, 88, 90,
      91, 92, 93, 95, 96, 97, 99, 100, 101, 103, 104, 105, 107, 108, 109, 111,
      112, 114, 115, 117, 118, 119, 121, 122, 124, 125, 127, 128, 130, 131, 133, 135,
      136, 138, 139, 141, 142, 144, 146, 147, 149, 151, 152, 154, 156, 157, 159, 161,
      162, 164, 166, 168, 169, 171, 173, 175, 176, 178, 180, 182, 184, 186, 187, 189,
      191, 193, 195, 197, 199, 201, 203, 205, 207, 209, 211, 213, 215, 217, 219, 221,
      223, 225, 227, 229, 231, 233, 235, 237, 239, 241, 244, 246, 248, 250, 252, 255
   >>

RECURSIVE IntPow(_, _)
IntPow(b, k) == IF k = 0 THEN 1 ELSE b * IntPow(b, k - 1)

\* the table element buildGammaLUT stores for index i (0..255) and exponent
\* gamma: powf(i / 255.0f, gamma) * 255.0f, converted to the element type of
\* the table, a byte, which cuts the fraction.  The exponents of the model
\* are 2.2 and the whole numbers, for which the value is i^k / 255^(k-1).
GammaEntry(i, gamma) ==
    CASE gamma = DefaultGamma -> Pow22[i + 1]
      [] gamma % Milli = 0 /\ gamma > 0 ->
           IntPow(i, gamma \div Milli) \div IntPow(255, (gamma \div Milli) - 1)

\* a * d / Milli, rounded to the nearest, without leaving 32 bits
MulMilli(a, d) ==
    a * (d \div Milli) + ((a * (d % Milli) + (Milli \div 2)) \div Milli)

\* a loop body of applyGammaAndBrightness that leaves brightness_ out
ShapeByte_NoBrightness(val, lut, brightness) ==
    LET v   == Clamp(val, 0, 255 * TUnit)
        idx == Clamp((v + (TUnit \div 2)) \div TUnit, 0, 255)
    IN  clamp255(lut[idx + 1])

\* the loop body of applyGammaAndBrightness for one element: the byte
\* buffer_[i] becomes
ShapeByte(val, lut, brightness) ==
    LET v       == Clamp(val, 0, 255 * TUnit)
        idx     == Clamp((v + (TUnit \div 2)) \div TUnit, 0, 255)
        gammaed == lut[idx + 1] * brightness
    IN  clamp255((gammaed + (Milli \div 2)) \div Milli)

\* an EMA with the difference taken the other way round: l + a * (l - n)
Ema_Reversed(l, n, a) == l + MulMilli(a, l - n * TUnit)

\* the loop body of doSmoothing for one element: l + a * (n - l)
Ema(l, n, a) == l + MulMilli(a, n * TUnit - l)

(***************************************************************************)
(* The initial state: the LEDDriver after its member initialisers and      *)
(* openSPI(), main about to run the constructor body; no other thread.     *)
(***************************************************************************)
Init ==
    /\ lastFloatBuffer_ = [i \in Idx |-> 0]
    /\ buffer_ = [i \in Idx |-> 0]
    /\ gammaLUT_ = <<>>
    /\ gamma_ = DefaultGamma
    /\ brightness_ = DefaultBrightness
    /\ smoothingAlpha_ = DefaultAlpha
    /\ spiFd_ = OpenFd
    /\ mutex_ = [owner |-> None, depth |-> 0]
    /\ running = TRUE
    /\ pc = [t \in Threads |->
               CASE t = "main" -> "ctor"
                 [] t \in Conns -> "idle"
                 [] OTHER -> "unstarted"]
    /\ prog = [t \in Callers |-> IF t = "main" THEN Constructor ELSE <<>>]
    /\ blocked = {}
    /\ cmd = [c \in Conns |-> <<>>]
    /\ line = [c \in Conns |-> <<>>]
    /\ reads = [c \in Conns |-> 0]
    /\ ticks = 0
    /\ tx = [t \in Callers |-> <<>>]
    /\ sent = [t \in Callers |-> <<>>]
    /\ seen = [t \in Callers |-> <<>>]
    /\ live = [t \in Callers |-> {}]
    /\ snap = [t \in Callers |-> {}]
    /\ bufTable = [i \in Idx |-> 0]
    /\ stream = [c \in Conns |-> <<>>]
    /\ dispatched = [c \in Conns |-> <<>>]

(***************************************************************************)
(* Primitive steps of a caller t                                           *)
(***************************************************************************)
\* the process lives until main returns
Alive == pc["main"] # "exit"

\* t is about to execute a primitive step named op
At(t, op) ==
    /\ Alive
    /\ t \notin blocked
    /\ prog[t] # <<>>
    /\ prog[t][1].op = op

Arg(t) == prog[t][1].arg
Advance(t) == prog' = [prog EXCEPT ![t] = Tail(@)]

Config == <<brightness_, gamma_, smoothingAlpha_>>
\* callers whose STATUS has read some but not all of the configuration
InStatus == {u \in Callers : Len(seen[u]) \in 1..2}
\* the configuration became cfg: every STATUS under way could now see it
Observe(cfg) == live' = [u \in Callers |-> IF u \in InStatus THEN live[u] \cup {cfg}
                                           ELSE live[u]]

\* buffer_ became buf: every write() under way has now met it
Snapshot(buf) == snap' = [u \in Callers |-> IF tx[u] # <<>> THEN snap[u] \cup {buf}
                                            ELSE snap[u]]

\* std::lock_guard<std::mutex> lock(mutex_), the mutex being free
Lock(t) ==
    /\ At(t, "lock")
    /\ mutex_.owner = None
    /\ mutex_' = [owner |-> t, depth |-> 1]
    /\ Advance(t)
    /\ UNCHANGED <<logVars, drvVars, running, pc, blocked, cmd, line, reads, ticks, obsVars>>

\* mutex_.lock() by the thread that owns mutex_: undefined behaviour of
\* std::mutex.  One outcome: the call never returns.
RelockDeadlock(t) ==
    /\ At(t, "lock")
    /\ mutex_.owner = t
    /\ blocked' = blocked \cup {t}
    /\ UNCHANGED <<logVars, drvVars, mutex_, running, pc, prog, cmd, line, reads, ticks, obsVars>>

\* The other outcome: the call returns and the thread goes on as the owner
\* (the matching unlock leaves the mutex held by the outer lock_guard).
RelockProceed(t) ==
    /\ At(t, "lock")
    /\ mutex_.owner = t
    /\ mutex_' = [mutex_ EXCEPT !.depth = @ + 1]
    /\ Advance(t)
    /\ UNCHANGED <<logVars, drvVars, running, pc, blocked, cmd, line, reads, ticks, obsVars>>

\* the end of a lock_guard's scope
Unlock(t) ==
    /\ At(t, "unlock")
    /\ mutex_' = IF mutex_.depth > 1 THEN [mutex_ EXCEPT !.depth = @ - 1]
                 ELSE [owner |-> None, depth |-> 0]
    /\ Advance(t)
    /\ UNCHANGED <<logVars, drvVars, running, pc, blocked, cmd, line, reads, ticks, obsVars>>

\* a loop body of applyGammaAndBrightness that shapes the byte buffer_[i]
\* holds, not the value of lastFloatBuffer_[i]
Shape_FromOutput(t) ==
    /\ At(t, "shape")
    /\ LET i == Arg(t)[1]
       IN  /\ buffer_' = [buffer_ EXCEPT
                            ![i] = ShapeByte(buffer_[i] * TUnit, gammaLUT_, brightness_)]
           /\ bufTable' = [bufTable EXCEPT ![i] = gamma_]
    /\ Snapshot(buffer_')
    /\ Advance(t)
    /\ UNCHANGED <<logVars, lastFloatBuffer_, gammaLUT_, gamma_, brightness_, smoothingAlpha_,
                   spiFd_, mutex_, running, pc, blocked, cmd, line, reads, ticks,
                   tx, sent, seen, live>>

\* one iteration of the loop of applyGammaAndBrightness
Shape(t) ==
    /\ At(t, "shape")
    /\ LET i == Arg(t)[1]
       IN  /\ buffer_' = [buffer_ EXCEPT
                            ![i] = ShapeByte(lastFloatBuffer_[i], gammaLUT_, brightness_)]
           /\ bufTable' = [bufTable EXCEPT ![i] = gamma_]
    /\ Snapshot(buffer_')
    /\ Advance(t)
    /\ UNCHANGED <<logVars, lastFloatBuffer_, gammaLUT_, gamma_, brightness_, smoothingAlpha_,
                   spiFd_, mutex_, running, pc, blocked, cmd, line, reads, ticks,
                   tx, sent, seen, live>>

\* a doSmoothing without the size test of lines 144..147: the loop runs over
\* lastFloatBuffer_ and reads newbuf[i] where it exists, 0 elsewhere (one of
\* the values a read past the end may give)
Smooth_NoSizeTest(t) ==
    /\ At(t, "smooth")
    /\ LET newbuf == Arg(t)
           a      == Clamp(smoothingAlpha_, 0, Milli)
       IN  lastFloatBuffer_' =
               [i \in Idx |-> Ema(lastFloatBuffer_[i],
                                  IF i <= Len(newbuf) THEN newbuf[i] ELSE 0, a)]
    /\ Advance(t)
    /\ UNCHANGED <<logVars, buffer_, gammaLUT_, gamma_, brightness_, smoothingAlpha_, spiFd_,
                   bufTable, mutex_, running, pc, blocked, cmd, line, reads, ticks,
                   obsVars>>

\* doSmoothing: the size test and the whole EMA loop
Smooth(t) ==
    /\ At(t, "smooth")
    /\ LET newbuf == Arg(t)
           a      == Clamp(smoothingAlpha_, 0, Milli)
       IN  lastFloatBuffer_' =
               IF Len(newbuf) # Len(lastFloatBuffer_) THEN lastFloatBuffer_
               ELSE [i \in Idx |-> Ema(lastFloatBuffer_[i], newbuf[i], a)]
    /\ Advance(t)
    /\ UNCHANGED <<logVars, buffer_, gammaLUT_, gamma_, brightness_, smoothingAlpha_, spiFd_,
                   bufTable, mutex_, running, pc, blocked, cmd, line, reads, ticks,
                   obsVars>>

\* setAll: the loop that stores (r, g, b) into every LED
SetAll(t) ==
    /\ At(t, "setall")
    /\ lastFloatBuffer_' = [i \in Idx |-> Arg(t)[((i - 1) % 3) + 1] * TUnit]
    /\ Advance(t)
    /\ UNCHANGED <<logVars, buffer_, gammaLUT_, gamma_, brightness_, smoothingAlpha_, spiFd_,
                   bufTable, mutex_, running, pc, blocked, cmd, line, reads, ticks,
                   obsVars>>

\* a setPixel that stores the colour into every LED, as setAll does
SetPix_WholeStrip(t) ==
    /\ At(t, "setpix")
    /\ lastFloatBuffer_' = [i \in Idx |-> Arg(t)[((i - 1) % 3) + 2] * TUnit]
    /\ Advance(t)
    /\ UNCHANGED <<logVars, buffer_, gammaLUT_, gamma_, brightness_, smoothingAlpha_, spiFd_,
                   bufTable, mutex_, running, pc, blocked, cmd, line, reads, ticks,
                   obsVars>>

\* setPixel: the three stores at off = idx * 3
SetPix(t) ==
    /\ At(t, "setpix")
    /\ LET off == Arg(t)[1] * 3
       IN  lastFloatBuffer_' = [lastFloatBuffer_ EXCEPT
                                  ![off + 1] = Arg(t)[2] * TUnit,
                                  ![off + 2] = Arg(t)[3] * TUnit,
                                  ![off + 3] = Arg(t)[4] * TUnit]
    /\ Advance(t)
    /\ UNCHANGED <<logVars, buffer_, gammaLUT_, gamma_, brightness_, smoothingAlpha_, spiFd_,
                   bufTable, mutex_, running, pc, blocked, cmd, line, reads, ticks,
                   obsVars>>

\* clear: the loop that zeroes lastFloatBuffer_
ZeroFloat(t) ==
    /\ At(t, "zerofloat")
    /\ lastFloatBuffer_' = [i \in Idx |-> 0]
    /\ Advance(t)
    /\ UNCHANGED <<logVars, buffer_, gammaLUT_, gamma_, brightness_, smoothingAlpha_, spiFd_,
                   bufTable, mutex_, running, pc, blocked, cmd, line, reads, ticks,
                   obsVars>>

\* clear: one iteration of the loop that zeroes buffer_
ZeroBuf(t) ==
    /\ At(t, "zerobuf")
    /\ buffer_' = [buffer_ EXCEPT ![Arg(t)[1]] = 0]
    /\ bufTable' = [bufTable EXCEPT ![Arg(t)[1]] = 0]
    /\ Snapshot(buffer_')
    /\ Advance(t)
    /\ UNCHANGED <<logVars, lastFloatBuffer_, gammaLUT_, gamma_, brightness_, smoothingAlpha_,
                   spiFd_, mutex_, running, pc, blocked, cmd, line, reads, ticks,
                   tx, sent, seen, live>>

\* void LEDDriver::buildGammaLUT(gamma)
buildGammaLUT(t) ==
    /\ At(t, "buildlut")
    /\ gamma_' = Arg(t)[1]
    /\ gammaLUT_' = [i \in 1..256 |-> GammaEntry(i - 1, Arg(t)[1])]
    /\ Observe(<<brightness_, Arg(t)[1], smoothingAlpha_>>)
    /\ Advance(t)
    /\ UNCHANGED <<logVars, lastFloatBuffer_, buffer_, brightness_, smoothingAlpha_, spiFd_,
                   bufTable, mutex_, running, pc, blocked, cmd, line, reads, ticks,
                   tx, sent, seen, snap>>

\* setBrightness: brightness_ = std::clamp(brightness, 0.0f, 1.0f)
SetBright(t) ==
    /\ At(t, "setbright")
    /\ brightness_' = Arg(t)[1]
    /\ Observe(<<Arg(t)[1], gamma_, smoothingAlpha_>>)
    /\ Advance(t)
    /\ UNCHANGED <<logVars, lastFloatBuffer_, buffer_, gammaLUT_, gamma_, smoothingAlpha_,
                   spiFd_, bufTable, mutex_, running, pc, blocked, cmd, line, reads,
                   ticks, tx, sent, seen, snap>>

\* setSmoothingAlpha: smoothingAlpha_ = std::clamp(alpha, 0.0f, 1.0f)
SetAlpha(t) ==
    /\ At(t, "setalpha")
    /\ smoothingAlpha_' = Arg(t)[1]
    /\ Observe(<<brightness_, gamma_, Arg(t)[1]>>)
    /\ Advance(t)
    /\ UNCHANGED <<logVars, lastFloatBuffer_, buffer_, gammaLUT_, gamma_, brightness_, spiFd_,
                   bufTable, mutex_, running, pc, blocked, cmd, line, reads, ticks,
                   tx, sent, seen, snap>>

\* show: `if (spiFd_ < 0) return;` and write(spiFd_, buffer_.data(), size),
\* which takes the bytes of buffer_ one after the other, holding no lock of
\* show's own; the frame is on the bus when the last byte is taken
Write(t) ==
    /\ At(t, "write")
    /\ LET i == Arg(t)[1]
       IN  IF i = 1 /\ spiFd_ < 0
           THEN /\ prog' = [prog EXCEPT ![t] = Drop(@, Size + 1)]
                /\ UNCHANGED <<tx, sent, snap>>
           ELSE /\ Advance(t)
                /\ tx' = [tx EXCEPT ![t] = Append(@, buffer_[i])]
                /\ snap' = IF i = 1 THEN [snap EXCEPT ![t] = {buffer_}] ELSE snap
                /\ sent' = IF i = Size
                           THEN [sent EXCEPT ![t] = Append(@, Append(tx[t], buffer_[i]))]
                           ELSE sent
    /\ UNCHANGED <<logVars, drvVars, mutex_, running, pc, blocked, cmd, line, reads, ticks,
                   seen, live>>

\* show: usleep(LATCH_US), after which show returns
Latch(t) ==
    /\ At(t, "latch")
    /\ tx' = [tx EXCEPT ![t] = <<>>]
    /\ snap' = [snap EXCEPT ![t] = {}]
    /\ Advance(t)
    /\ UNCHANGED <<logVars, drvVars, mutex_, running, pc, blocked, cmd, line, reads, ticks,
                   sent, seen, live>>

\* void LEDDriver::closeSPI()
closeSPI(t) ==
    /\ At(t, "closespi")
    /\ spiFd_' = ClosedFd
    /\ Advance(t)
    /\ UNCHANGED <<logVars, lastFloatBuffer_, buffer_, gammaLUT_, gamma_, brightness_,
                   smoothingAlpha_, bufTable, mutex_, running, pc, blocked, cmd, line,
                   reads, ticks, obsVars>>

\* STATUS: `oss << ... << brightness_`, with no lock held
RdBright(t) ==
    /\ At(t, "rdbright")
    /\ seen' = [seen EXCEPT ![t] = <<brightness_>>]
    /\ live' = [live EXCEPT ![t] = {Config}]
    /\ Advance(t)
    /\ UNCHANGED <<logVars, drvVars, mutex_, running, pc, blocked, cmd, line, reads, ticks,
                   tx, sent, snap>>

\* STATUS: `<< gamma_`
RdGamma(t) ==
    /\ At(t, "rdgamma")
    /\ seen' = [seen EXCEPT ![t] = Append(@, gamma_)]
    /\ Advance(t)
    /\ UNCHANGED <<logVars, drvVars, mutex_, running, pc, blocked, cmd, line, reads, ticks,
                   tx, sent, live, snap>>

\* STATUS: `<< smoothingAlpha_`
RdAlpha(t) ==
    /\ At(t, "rdalpha")
    /\ seen' = [seen EXCEPT ![t] = Append(@, smoothingAlpha_)]
    /\ Advance(t)
    /\ UNCHANGED <<logVars, drvVars, mutex_, running, pc, blocked, cmd, line, reads, ticks,
                   tx, sent, live, snap>>

(***************************************************************************)
(* runIPCServer                                                            *)
(***************************************************************************)
\* socket(), bind() or listen() fails: runIPCServer returns
IpcSetupFail ==
    /\ Alive
    /\ pc["ipc"] = "setup"
    /\ pc' = [pc EXCEPT !["ipc"] = "done"]
    /\ UNCHANGED <<logVars, drvVars, mutex_, running, prog, blocked, cmd, line, reads, ticks,
                   obsVars>>

\* listen() succeeded: the thread enters `while (true)`
IpcListen ==
    /\ Alive
    /\ pc["ipc"] = "setup"
    /\ pc' = [pc EXCEPT !["ipc"] = "accept"]
    /\ UNCHANGED <<logVars, drvVars, mutex_, running, prog, blocked, cmd, line, reads, ticks,
                   obsVars>>

\* accept() returns a client: a detached thread is started for it and the
\* acceptor loops (no test of the running flag)
Accept(c) ==
    /\ Alive
    /\ pc["ipc"] = "accept"
    /\ pc[c] = "idle"
    /\ pc' = [pc EXCEPT ![c] = "read"]
    /\ UNCHANGED <<logVars, drvVars, mutex_, running, prog, blocked, cmd, line, reads, ticks,
                   obsVars>>

\* the connection thread is between two calls of handleCommand, or has not
\* called it yet after a read
AtSplit(c) == pc[c] = "split" \/ (pc[c] = "call" /\ prog[c] = <<>> /\ c \notin blocked)

\* read() returns n > 0 bytes: cmd.append(buf, n)
ReadChunk(c, chunk, log) ==
    /\ Alive
    /\ pc[c] = "read"
    /\ reads[c] < MaxReads
    /\ chunk # <<>>
    /\ cmd' = [cmd EXCEPT ![c] = @ \o chunk]
    /\ reads' = [reads EXCEPT ![c] = @ + 1]
    /\ pc' = [pc EXCEPT ![c] = "split"]
    /\ stream' = IF log THEN [stream EXCEPT ![c] = @ \o chunk] ELSE stream
    /\ UNCHANGED <<dispatched, drvVars, mutex_, running, prog, blocked, line, ticks,
                   obsVars>>

\* a handler that may end while it still has lines to split, or keeps its
\* accumulator when it ends
ReadEnd_Early(c) ==
    /\ Alive
    /\ pc[c] \in {"read", "split"}
    /\ pc' = [pc EXCEPT ![c] = "closed"]
    /\ UNCHANGED <<logVars, drvVars, mutex_, running, prog, blocked, cmd, line, reads, ticks,
                   obsVars>>

\* read() returns n <= 0: break, close(client), the thread ends and its
\* accumulator with it
ReadEnd(c) ==
    /\ Alive
    /\ pc[c] = "read"
    /\ pc' = [pc EXCEPT ![c] = "closed"]
    /\ cmd' = [cmd EXCEPT ![c] = <<>>]
    /\ UNCHANGED <<logVars, drvVars, mutex_, running, prog, blocked, line, reads, ticks, obsVars>>

\* a first line that keeps its terminator: cmd.substr(0, pos + 1)
FirstLine_WithTerminator(s) == Take(s, Find(s, NL))
\* the first line of the accumulator: cmd.substr(0, pos), pos = cmd.find('\n')
FirstLine(s) == Take(s, Find(s, NL) - 1)
\* cmd.erase(0, pos + 1)
EraseLine(s) == Drop(s, Find(s, NL))

\* the inner loop finds a '\n': the line is cut off the accumulator and
\* handed to driver->handleCommand(line)
SplitLine(c, log) ==
    /\ Alive
    /\ AtSplit(c)
    /\ Find(cmd[c], NL) # 0
    /\ line' = [line EXCEPT ![c] = FirstLine(cmd[c])]
    /\ cmd' = [cmd EXCEPT ![c] = EraseLine(@)]
    /\ prog' = [prog EXCEPT ![c] = handleCommand(FirstLine(cmd[c]))]
    /\ pc' = [pc EXCEPT ![c] = "call"]
    /\ sent' = [sent EXCEPT ![c] = <<>>]
    /\ seen' = [seen EXCEPT ![c] = <<>>]
    /\ live' = [live EXCEPT ![c] = {}]
    /\ dispatched' = IF log THEN [dispatched EXCEPT ![c] = Append(@, FirstLine(cmd[c]))]
                      ELSE dispatched
    /\ UNCHANGED <<stream, drvVars, mutex_, running, blocked, reads, ticks, tx, snap>>

\* the inner loop finds no '\n': back to read()
SplitDone(c) ==
    /\ Alive
    /\ AtSplit(c)
    /\ Find(cmd[c], NL) = 0
    /\ pc' = [pc EXCEPT ![c] = "read"]
    /\ UNCHANGED <<logVars, drvVars, mutex_, running, prog, blocked, cmd, line, reads, ticks,
                   obsVars>>

(***************************************************************************)
(* main                                                                    *)
(***************************************************************************)
\* void signalHandler(int)
signalHandler ==
    /\ Alive
    /\ running
    /\ running' = FALSE
    /\ UNCHANGED <<logVars, drvVars, mutex_, pc, prog, blocked, cmd, line, reads, ticks, obsVars>>

\* the driver is constructed: main starts pythonThread and ipcThread and
\* enters its loop
StartThreads ==
    /\ pc["main"] = "ctor"
    /\ prog["main"] = <<>>
    /\ pc' = [pc EXCEPT !["main"] = "loop", !["py"] = "poll", !["ipc"] = "setup"]
    /\ UNCHANGED <<logVars, drvVars, mutex_, running, prog, blocked, cmd, line, reads, ticks,
                   obsVars>>

\* the colours the frame pipeline hands to the loop, one (r, g, b) for all
\* LEDs
FrameColors == {<<255, 128, 0>>}

\* one iteration of `while (running)`: the frame's colours go through the
\* smoothing step, the reshape and the bus write, as for COLOR
FrameTick(rgb) ==
    /\ pc["main"] = "loop"
    /\ running
    /\ ticks < MaxTicks
    /\ ticks' = ticks + 1
    /\ pc' = [pc EXCEPT !["main"] = "tick"]
    /\ prog' = [prog EXCEPT !["main"] =
                   doSmoothing(ColorBuf(rgb[1], rgb[2], rgb[3]))
                   \o applyGammaAndBrightness \o show]
    /\ sent' = [sent EXCEPT !["main"] = <<>>]
    /\ UNCHANGED <<logVars, drvVars, mutex_, running, blocked, cmd, line, reads, tx, seen, live,
                   snap>>

\* the iteration's sleep_for(16 ms) is over
FrameSleep ==
    /\ pc["main"] = "tick"
    /\ prog["main"] = <<>>
    /\ pc' = [pc EXCEPT !["main"] = "loop"]
    /\ UNCHANGED <<logVars, drvVars, mutex_, running, prog, blocked, cmd, line, reads, ticks,
                   obsVars>>

\* `while (running)` sees the flag cleared
LoopExit ==
    /\ pc["main"] = "loop"
    /\ ~running
    /\ pc' = [pc EXCEPT !["main"] = "join_py"]
    /\ UNCHANGED <<logVars, drvVars, mutex_, running, prog, blocked, cmd, line, reads, ticks,
                   obsVars>>

\* pythonThread: py.start() fails and the thread returns
PyStartFail ==
    /\ Alive
    /\ pc["py"] = "poll"
    /\ running
    /\ pc' = [pc EXCEPT !["py"] = "done"]
    /\ UNCHANGED <<logVars, drvVars, mutex_, running, prog, blocked, cmd, line, reads, ticks,
                   obsVars>>

\* pythonThread: `while (running)` sees the flag cleared; py.stop()
PyStop ==
    /\ Alive
    /\ pc["py"] = "poll"
    /\ ~running
    /\ pc' = [pc EXCEPT !["py"] = "done"]
    /\ UNCHANGED <<logVars, drvVars, mutex_, running, prog, blocked, cmd, line, reads, ticks,
                   obsVars>>

\* pythonThread.join()
JoinPy ==
    /\ pc["main"] = "join_py"
    /\ pc["py"] = "done"
    /\ pc' = [pc EXCEPT !["main"] = "join_ipc"]
    /\ UNCHANGED <<logVars, drvVars, mutex_, running, prog, blocked, cmd, line, reads, ticks,
                   obsVars>>

\* ipcThread.join() returns: runIPCServer has returned
JoinIpc ==
    /\ pc["main"] = "join_ipc"
    /\ pc["ipc"] = "done"
    /\ pc' = [pc EXCEPT !["main"] = "joined"]
    /\ UNCHANGED <<logVars, drvVars, mutex_, running, prog, blocked, cmd, line, reads, ticks,
                   obsVars>>

\* led.clear(); led.send(): the final clear and flush of the strip
FinalClear ==
    /\ pc["main"] = "joined"
    /\ pc' = [pc EXCEPT !["main"] = "final"]
    /\ prog' = [prog EXCEPT !["main"] = clear \o show]
    /\ sent' = [sent EXCEPT !["main"] = <<>>]
    /\ UNCHANGED <<logVars, drvVars, mutex_, running, blocked, cmd, line, reads, ticks, tx, seen,
                   live, snap>>

\* main returns: the driver is destroyed
Destroy ==
    /\ pc["main"] = "final"
    /\ prog["main"] = <<>>
    /\ pc' = [pc EXCEPT !["main"] = "dtor"]
    /\ prog' = [prog EXCEPT !["main"] = Destructor]
    /\ UNCHANGED <<logVars, drvVars, mutex_, running, blocked, cmd, line, reads, ticks, obsVars>>

\* the process ends, and every thread with it
Exit ==
    /\ pc["main"] = "dtor"
    /\ prog["main"] = <<>>
    /\ pc' = [pc EXCEPT !["main"] = "exit"]
    /\ UNCHANGED <<logVars, drvVars, mutex_, running, prog, blocked, cmd, line, reads, ticks,
                   obsVars>>

MainStep ==
    \/ StartThreads
    \/ \E rgb \in FrameColors : FrameTick(rgb)
    \/ FrameSleep
    \/ LoopExit \/ JoinPy \/ JoinIpc \/ FinalClear \/ Destroy \/ Exit

(***************************************************************************)
(* Inputs: what a read() may deliver                                       *)
(***************************************************************************)
LnShow == <<"S", "H", "O", "W", NL>>
LnClear == <<"C", "L", "E", "A", "R", NL>>
LnStatus == <<"S", "T", "A", "T", "U", "S", NL>>
LnColor == <<"C", "O", "L", "O", "R", SP, "2", "5", "5", SP, "0", SP, "1", "0", "0", NL>>
LnGamma1 == <<"G", "A", "M", "M", "A", SP, "1", NL>>
LnBright50 == <<"B", "R", "I", "G", "H", "T", SP, "5", "0", NL>>
LnSmooth1 == <<"S", "M", "O", "O", "T", "H", SP, "1", NL>>
LnPix0 == <<"P", "I", "X", SP, "0", SP, "9", SP, "9", SP, "9", NL>>

\* a line cut by the end of a read
ChCol == <<"C", "O", "L">>
\* ... and its rest
ChOrTail == <<"O", "R", SP, "1", SP, "2", SP, "3", NL>>
\* two lines in one read, the second with an unknown token
ChShowFoo == <<"S", "H", "O", "W", NL, "F", "O", "O", NL>>
\* an empty line
ChNewline == <<NL>>
\* a line and the head of the next one
ChStatusSh == <<"S", "T", "A", "T", "U", "S", NL, "S", "H">>
\* a COLOR whose third argument is no number
LnColor9x == <<"C", "O", "L", "O", "R", SP, "2", "5", "5", SP, "0", SP, "9", "x", NL>>
\* a COLOR whose second argument is no number
LnColorX == <<"C", "O", "L", "O", "R", SP, "1", SP, "x", SP, "3", NL>>
\* a COLOR with two arguments
LnColorShort == <<"C", "O", "L", "O", "R", SP, "1", SP, "2", NL>>
\* a BRIGHT whose argument is no number
LnBrightAbc == <<"B", "R", "I", "G", "H", "T", SP, "a", "b", "c", NL>>
FOO_ == <<"F", "O", "O">>
COLOR_1_2_3 == <<"C", "O", "L", "O", "R", SP, "1", SP, "2", SP, "3">>

\* the lines of the command table, with arguments at and around their limits
LnBright80 == <<"B", "R", "I", "G", "H", "T", SP, "8", "0", NL>>
LnBright08 == <<"B", "R", "I", "G", "H", "T", SP, "0", ".", "8", NL>>
LnBright1 == <<"B", "R", "I", "G", "H", "T", SP, "1", NL>>
LnBright0 == <<"B", "R", "I", "G", "H", "T", SP, "0", NL>>
LnBright150 == <<"B", "R", "I", "G", "H", "T", SP, "1", "5", "0", NL>>
LnBrightNeg == <<"B", "R", "I", "G", "H", "T", SP, "-", "5", NL>>
LnPix1 == <<"P", "I", "X", SP, "1", SP, "1", "0", SP, "2", "0", SP, "3", "0", NL>>
LnPix9999 == <<"P", "I", "X", SP, "9", "9", "9", "9", SP, "1", "0", SP, "1", "0", SP, "1", "0", NL>>
LnPixNeg == <<"P", "I", "X", SP, "-", "1", SP, "1", "0", SP, "1", "0", SP, "1", "0", NL>>
LnGamma2 == <<"G", "A", "M", "M", "A", SP, "2", NL>>
LnGamma001 == <<"G", "A", "M", "M", "A", SP, "0", ".", "0", "1", NL>>
LnGamma0 == <<"G", "A", "M", "M", "A", SP, "0", NL>>
LnSmooth05 == <<"S", "M", "O", "O", "T", "H", SP, "0", ".", "5", NL>>
LnSmooth2 == <<"S", "M", "O", "O", "T", "H", SP, "2", NL>>
LnSmoothNeg == <<"S", "M", "O", "O", "T", "H", SP, "-", "1", NL>>
LnColor2 == <<"C", "O", "L", "O", "R", SP, "1", "0", "0", SP, "1", "5", "0", SP, "2", "0", "0", NL>>
LnGamma1Smooth1 == <<"G", "A", "M", "M", "A", SP, "1", NL, "S", "M", "O", "O", "T", "H", SP, "1", NL>>
LnShowShow == <<"S", "H", "O", "W", NL, "S", "H", "O", "W", NL>>

Chunks == {LnShow, LnClear, LnStatus, LnColor, LnGamma1, LnBright50, LnSmooth1, LnPix0}

(***************************************************************************)
(* The program: main, the python thread, the acceptor and one remote       *)
(* client that may send any of the commands                                *)
(***************************************************************************)
\* the mutex operations of caller t
MutexStep(t) ==
    \/ Lock(t) \/ RelockDeadlock(t) \/ RelockProceed(t) \/ Unlock(t)

\* the steps of show() and of clear()
ShowStep(t) ==
    \/ Shape(t) \/ Write(t) \/ Latch(t) \/ ZeroFloat(t) \/ ZeroBuf(t)

\* the steps of the other methods a command reaches
CommandStep(t) ==
    \/ Smooth(t) \/ SetPix(t) \/ buildGammaLUT(t) \/ SetBright(t) \/ SetAlpha(t)
    \/ RdBright(t) \/ RdGamma(t) \/ RdAlpha(t)

\* log: whether the run records what was read and what was dispatched
ConnStep(c, chunks, log) ==
    \/ Accept(c)
    \/ \E chunk \in chunks : ReadChunk(c, chunk, log)
    \/ ReadEnd(c)
    \/ SplitLine(c, log)
    \/ SplitDone(c)

Step ==
    \/ \E t \in {"main", "c1"} : MutexStep(t) \/ ShowStep(t) \/ CommandStep(t)
    \/ closeSPI("main")
    \/ MainStep
    \/ signalHandler
    \/ IpcSetupFail \/ IpcListen
    \/ PyStartFail \/ PyStop
    \/ ConnStep("c1", Chunks, FALSE)

Next == Step

Spec == Init /\ [][Next]_vars

(***************************************************************************)
(* Start and shutdown: main, the python thread and the acceptor, with a    *)
(* client that connects and hangs up.  The scheduler lets every thread     *)
(* that can take a step take one; every run is finite, so weak fairness of *)
(* the next-state action states it.                                        *)
(***************************************************************************)
NextStop ==
    \/ MutexStep("main") \/ ShowStep("main") \/ Smooth("main")
    \/ buildGammaLUT("main") \/ closeSPI("main")
    \/ MainStep
    \/ signalHandler
    \/ IpcSetupFail \/ IpcListen
    \/ PyStartFail \/ PyStop
    \/ Accept("c1") \/ ReadEnd("c1")

SpecStop == Init /\ [][NextStop]_vars
FairStop == SpecStop /\ WF_vars(NextStop)

(***************************************************************************)
(* The driver called directly: the threads of Callers each make up to      *)
(* MaxCalls calls of setAll, setGamma and applyGammaAndBrightness on a     *)
(* constructed driver.                                                     *)
(***************************************************************************)
ApiCalls == {setAll(255, 128, 0), setGamma(Milli), applyGammaAndBrightness}

\* the sequences of at most n calls
RECURSIVE CallSeqs(_)
CallSeqs(n) ==
    IF n = 0 THEN {<<>>}
    ELSE CallSeqs(n - 1) \cup {p \o q : p \in CallSeqs(n - 1), q \in ApiCalls}

\* the driver as the constructor leaves it (buildGammaLUT(2.2f), clear(),
\* show()), and the calls every thread is going to make
InitApi ==
    /\ lastFloatBuffer_ = [i \in Idx |-> 0]
    /\ buffer_ = [i \in Idx |-> 0]
    /\ gammaLUT_ = [i \in 1..256 |-> GammaEntry(i - 1, DefaultGamma)]
    /\ gamma_ = DefaultGamma
    /\ brightness_ = DefaultBrightness
    /\ smoothingAlpha_ = DefaultAlpha
    /\ spiFd_ = OpenFd
    /\ mutex_ = [owner |-> None, depth |-> 0]
    /\ running = TRUE
    /\ pc = [t \in Threads |-> IF t \in Callers THEN "api" ELSE "unstarted"]
    /\ prog \in [Callers -> CallSeqs(MaxCalls)]
    /\ blocked = {}
    /\ cmd = [c \in Conns |-> <<>>]
    /\ line = [c \in Conns |-> <<>>]
    /\ reads = [c \in Conns |-> 0]
    /\ ticks = 0
    /\ tx = [t \in Callers |-> <<>>]
    /\ sent = [t \in Callers |-> <<>>]
    /\ seen = [t \in Callers |-> <<>>]
    /\ live = [t \in Callers |-> {}]
    /\ snap = [t \in Callers |-> {}]
    /\ bufTable = [i \in Idx |-> DefaultGamma]
    /\ stream = [c \in Conns |-> <<>>]
    /\ dispatched = [c \in Conns |-> <<>>]

NextApi ==
    \E t \in Callers :
        \/ Lock(t) \/ RelockDeadlock(t) \/ RelockProceed(t) \/ Unlock(t)
        \/ SetAll(t) \/ buildGammaLUT(t) \/ Shape(t)

SpecApi == InitApi /\ [][NextApi]_vars

(***************************************************************************)
(* The command interface: main constructs the driver and starts the        *)
(* acceptor; one client sends lines cut in every way, well-formed and not. *)
(* What is read and what is dispatched is recorded.                        *)
(***************************************************************************)
ChunksIPC ==
    {ChCol, ChOrTail, ChShowFoo, ChNewline, ChStatusSh, LnColor, LnColor9x,
     LnColorX, LnColorShort, LnBrightAbc}

NextIPC ==
    \/ \E t \in {"main", "c1"} :
          \/ MutexStep(t) \/ ShowStep(t)
          \/ Smooth(t) \/ buildGammaLUT(t)
          \/ RdBright(t) \/ RdGamma(t) \/ RdAlpha(t)
    \/ StartThreads
    \/ IpcListen
    \/ ConnStep("c1", ChunksIPC, TRUE)

SpecIPC == Init /\ [][NextIPC]_vars

(***************************************************************************)
(* Two clients: one changes the configuration (GAMMA, SMOOTH), the other   *)
(* asks for it (STATUS) and flushes the strip (SHOW).                      *)
(***************************************************************************)
ChunksCfg(c) == IF c = "c1" THEN {LnGamma1, LnSmooth1} ELSE {LnStatus, LnShow}

NextCfg ==
    \/ \E t \in Callers :
          \/ MutexStep(t) \/ ShowStep(t)
          \/ buildGammaLUT(t) \/ SetAlpha(t)
          \/ RdBright(t) \/ RdGamma(t) \/ RdAlpha(t)
    \/ StartThreads
    \/ IpcListen
    \/ \E c \in Conns : ConnStep(c, ChunksCfg(c), FALSE)

SpecCfg == Init /\ [][NextCfg]_vars

(***************************************************************************)
(* One client that sends the commands of the table with arguments at and   *)
(* around their limits, to a driver main has constructed.                  *)
(***************************************************************************)
ChunksCmd ==
    {LnBright80, LnBright08, LnBright1, LnBright0, LnBright150, LnBrightNeg,
     LnPix0, LnPix1, LnPix9999, LnPixNeg,
     LnGamma1, LnGamma2, LnGamma001, LnGamma0,
     LnSmooth1, LnSmooth05, LnSmooth2, LnSmoothNeg,
     LnColor, LnColor2, LnGamma1Smooth1,
     LnShow, LnShowShow, LnClear, LnStatus}

NextCmd ==
    \/ \E t \in {"main", "c1"} : MutexStep(t) \/ ShowStep(t) \/ CommandStep(t)
    \/ StartThreads
    \/ IpcListen
    \/ ConnStep("c1", ChunksCmd, FALSE)

SpecCmd == Init /\ [][NextCmd]_vars

(***************************************************************************)
(* One client that sets gamma and the smoothing factor to 1 and sends       *)
(* COLOR r g b for colours over the range of a byte.                       *)
(***************************************************************************)
\* the decimal numeral of n >= 0, as a client writes it
RECURSIVE Numeral(_)
Numeral(n) ==
    IF n < 10 THEN <<Digits[n + 1]>>
    ELSE Numeral(n \div 10) \o <<Digits[(n % 10) + 1]>>

\* the line "COLOR r g b\n"
ColorLine(r, g, b) ==
    COLOR_ \o <<SP>> \o Numeral(r) \o <<SP>> \o Numeral(g) \o <<SP>> \o Numeral(b)
    \o <<NL>>

Reds == {0, 100, 255}
Greens == {0, 150}
Blues == {200, 255}

ChunksColor ==
    {LnGamma1Smooth1} \cup {ColorLine(r, g, b) : r \in Reds, g \in Greens, b \in Blues}

NextColor ==
    \/ \E t \in {"main", "c1"} :
          \/ MutexStep(t) \/ ShowStep(t)
          \/ Smooth(t) \/ buildGammaLUT(t) \/ SetAlpha(t)
    \/ StartThreads
    \/ IpcListen
    \/ ConnStep("c1", ChunksColor, FALSE)

SpecColor == Init /\ [][NextColor]_vars

(***************************************************************************)
(* Two clients: one sets the colour of the strip (COLOR), the other        *)
(* flushes it (SHOW).                                                      *)
(***************************************************************************)
ChunksShow(c) == IF c = "c1" THEN {LnColor} ELSE {LnShow}

NextShow ==
    \/ \E t \in Callers :
          \/ MutexStep(t) \/ ShowStep(t)
          \/ Smooth(t) \/ buildGammaLUT(t)
    \/ StartThreads
    \/ IpcListen
    \/ \E c \in Conns : ConnStep(c, ChunksShow(c), FALSE)

SpecShow == Init /\ [][NextShow]_vars

(***************************************************************************)
(* The smoothing step called directly: on a constructed driver whose LEDs  *)
(* all hold one value and whose smoothing factor is one of Alphas, main    *)
(* calls doSmoothing MaxSmooth times with one and the same buffer, of the  *)
(* length of the strip or not.                                             *)
(***************************************************************************)
Alphas == {0, DefaultAlpha, 500, Milli}
Starts == {0, 255}
SmoothBufs ==
    {ColorBuf(255, 128, 0), ColorBuf(0, 0, 0), <<255>>,
     ColorBuf(255, 128, 0) \o <<255>>}

RECURSIVE Rep(_, _)
Rep(p, k) == IF k = 0 THEN <<>> ELSE p \o Rep(p, k - 1)

InitSmooth ==
    /\ \E s \in Starts :
          /\ lastFloatBuffer_ = [i \in Idx |-> s * TUnit]
          /\ buffer_ = [i \in Idx |->
                           ShapeByte(s * TUnit,
                                     [j \in 1..256 |-> GammaEntry(j - 1, DefaultGamma)],
                                     DefaultBrightness)]
    /\ gammaLUT_ = [i \in 1..256 |-> GammaEntry(i - 1, DefaultGamma)]
    /\ gamma_ = DefaultGamma
    /\ brightness_ = DefaultBrightness
    /\ smoothingAlpha_ \in Alphas
    /\ spiFd_ = OpenFd
    /\ mutex_ = [owner |-> None, depth |-> 0]
    /\ running = TRUE
    /\ pc = [t \in Threads |-> IF t = "main" THEN "api" ELSE "unstarted"]
    /\ \E newbuf \in SmoothBufs :
          prog = [t \in Callers |->
                    IF t = "main" THEN Rep(doSmoothing(newbuf), MaxSmooth) ELSE <<>>]
    /\ blocked = {}
    /\ cmd = [c \in Conns |-> <<>>]
    /\ line = [c \in Conns |-> <<>>]
    /\ reads = [c \in Conns |-> 0]
    /\ ticks = 0
    /\ tx = [t \in Callers |-> <<>>]
    /\ sent = [t \in Callers |-> <<>>]
    /\ seen = [t \in Callers |-> <<>>]
    /\ live = [t \in Callers |-> {}]
    /\ snap = [t \in Callers |-> {}]
    /\ bufTable = [i \in Idx |-> DefaultGamma]
    /\ stream = [c \in Conns |-> <<>>]
    /\ dispatched = [c \in Conns |-> <<>>]

NextSmooth == Lock("main") \/ Smooth("main") \/ Unlock("main")

SpecSmooth == InitSmooth /\ [][NextSmooth]_vars

(***************************************************************************)
(* C1  No two bus writes are interleaved: at most one thread is inside the *)
(* device write of show() (from the first byte write() takes to the end of *)
(* the latch pause).                                                       *)
(***************************************************************************)
InWrite(t) == tx[t] # <<>>
C1_SingleWriter == Cardinality({t \in Callers : InWrite(t)}) <= 1

(***************************************************************************)
(* C2  No Color State operation blocks for ever: no thread waits for ever  *)
(* in the lock() of the Color State mutex.                                 *)
(***************************************************************************)
C2_NoEndlessWait == blocked = {}

(***************************************************************************)
(* C3  Whenever no thread holds the Color State lock, output =             *)
(* shape(target) for every slot under the current table and brightness.    *)
(***************************************************************************)
Shaped ==
    \A i \in Idx : buffer_[i] = ShapeByte(lastFloatBuffer_[i], gammaLUT_, brightness_)
C3_ShapedWhenUnlocked == (mutex_.owner = None /\ gammaLUT_ # <<>>) => Shaped

(***************************************************************************)
(* C4  Under any interleaving of setAll, setGamma and                      *)
(* applyGammaAndBrightness called from different threads, whenever mutex_  *)
(* is free (the points where buffer_ can be read under the lock) all the   *)
(* bytes of buffer_ were computed under one gamma table.                   *)
(***************************************************************************)
C4_OneTable ==
    mutex_.owner = None => \A i, j \in Idx : bufTable[i] = bufTable[j]
\* a setGamma(1.0) has rebuilt the table and reshaped every byte after a
\* setAll stored its colour, and the mutex is free again
C4_Witness ==
    /\ mutex_.owner = None
    /\ gamma_ = Milli
    /\ lastFloatBuffer_[1] = 255 * TUnit
    /\ \A i \in Idx : bufTable[i] = Milli
(***************************************************************************)
(* C5  The configuration triple is never observed torn: the three values a *)
(* STATUS has read were in effect together at one instant of its reading.  *)
(***************************************************************************)
C5_StatusNotTorn ==
    \A t \in Callers : Len(seen[t]) = 3 => seen[t] \in live[t]

(***************************************************************************)
(* C6  Line reassembly on one connection: the strings handed to            *)
(* handleCommand are the '\n'-terminated lines of the bytes read so far,   *)
(* in order, each once and without its terminator.  While a call of        *)
(* handleCommand is under way they are a prefix of these lines; when the   *)
(* handler is back at read() (or has ended) they are all of them, and the  *)
(* accumulator holds the bytes after the last '\n', which are not          *)
(* dispatched.                                                             *)
(***************************************************************************)
\* the '\n'-terminated lines of s, without their terminators
RECURSIVE LinesOf(_)
LinesOf(s) ==
    IF \A i \in 1..Len(s) : s[i] # NL THEN <<>>
    ELSE LET k == CHOOSE i \in 1..Len(s) : s[i] = NL /\ \A j \in 1..(i - 1) : s[j] # NL
         IN  <<SubSeq(s, 1, k - 1)>> \o LinesOf(SubSeq(s, k + 1, Len(s)))
\* the bytes of s after its last '\n'
RECURSIVE PartialOf(_)
PartialOf(s) ==
    IF \A i \in 1..Len(s) : s[i] # NL THEN s
    ELSE LET k == CHOOSE i \in 1..Len(s) : s[i] = NL /\ \A j \in 1..(i - 1) : s[j] # NL
         IN  PartialOf(SubSeq(s, k + 1, Len(s)))
IsPrefix(a, b) == Len(a) <= Len(b) /\ SubSeq(b, 1, Len(a)) = a

C6_LinesReassembled ==
    \A c \in Conns :
        /\ IsPrefix(dispatched[c], LinesOf(stream[c]))
        /\ pc[c] \in {"read", "closed"} => dispatched[c] = LinesOf(stream[c])
        /\ pc[c] = "read" => cmd[c] = PartialOf(stream[c])
\* "COL" and "OR 1 2 3\n" came in two reads; one COLOR 1 2 3 was dispatched
\* and the handler is back at read()
C6_Witness ==
    /\ pc["c1"] = "read"
    /\ stream["c1"] = ChCol \o ChOrTail
    /\ dispatched["c1"] = <<COLOR_1_2_3>>
    /\ cmd["c1"] = <<>>

(***************************************************************************)
(* C7  Shutdown ordering: once termination is requested (running is        *)
(* false) while the acceptor is listening, the loop and the acceptor stop, *)
(* the final clear-and-flush is written, the device handle is released and *)
(* the process ends.                                                       *)
(***************************************************************************)
\* main has returned: it has left its loop, joined both threads, written
\* the final clear and destroyed the driver, which closes the device
ShutdownDone == pc["main"] = "exit" /\ spiFd_ = ClosedFd
C7_ShutdownCompletes == (~running /\ pc["ipc"] = "accept") ~> ShutdownDone

(***************************************************************************)
(* C8  clear() (the CLEAR command), called in any state, completes: a      *)
(* connection handler that called clear() is never left waiting for ever   *)
(* inside it.                                                              *)
(***************************************************************************)
InClear(c) == pc[c] = "call" /\ ReadToken(line[c]).val = CLEAR_ /\ prog[c] # <<>>
C8_ClearCompletes == \A c \in Conns : InClear(c) => c \notin blocked

(***************************************************************************)
(* C9  A line whose first token is no command, or a command with fewer     *)
(* arguments than it requires or with an argument that is no number, is    *)
(* dropped: its handleCommand performs no step on the driver (no state     *)
(* change, no bus write).                                                  *)
(***************************************************************************)
\* the white-space separated words of a line
RECURSIVE Words(_)
Words(s) ==
    LET t == SkipWs(s)
        n == SpanLen(t, {t[i] : i \in 1..Len(t)} \ {SP, NL, "\t", "\r"})
    IN  IF t = <<>> THEN <<>> ELSE <<Take(t, n)>> \o Words(Drop(t, n))
\* w is an integer numeral: an optional sign and digits, nothing else
IsIntNumeral(w) ==
    LET d == Sign(w).rest
    IN  d # <<>> /\ \A i \in 1..Len(d) : d[i] \in DigitSet
\* w is a decimal numeral: an optional sign, digits with at most one '.'
IsDecNumeral(w) ==
    LET d == Sign(w).rest
    IN  /\ \E i \in 1..Len(d) : d[i] \in DigitSet
        /\ \A i \in 1..Len(d) : d[i] \in DigitSet \cup {"."}
        /\ Cardinality({i \in 1..Len(d) : d[i] = "."}) <= 1
\* the number of integer (ints) and decimal (decs) arguments of a command
ArgsOf(tok) ==
    CASE tok = COLOR_ -> [ints |-> 3, decs |-> 0]
      [] tok = PIX_ -> [ints |-> 4, decs |-> 0]
      [] tok \in {BRIGHT_, GAMMA_, SMOOTH_} -> [ints |-> 0, decs |-> 1]
      [] OTHER -> [ints |-> 0, decs |-> 0]
Malformed(ln) ==
    LET w == Words(ln)
    IN  \/ w = <<>>
        \/ w[1] \notin {COLOR_, PIX_, BRIGHT_, GAMMA_, SMOOTH_, SHOW_, CLEAR_, STATUS_}
        \/ LET need == ArgsOf(w[1])
           IN  \/ Len(w) - 1 < need.ints + need.decs
               \/ \E k \in 1..need.ints : ~IsIntNumeral(w[k + 1])
               \/ \E k \in 1..need.decs : ~IsDecNumeral(w[k + 1])
C9_MalformedDropped ==
    \A c \in Conns : (pc[c] = "call" /\ Malformed(line[c])) => prog[c] = <<>>

(***************************************************************************)
(* C10  A connection handler ends only because of I/O: it goes to its end  *)
(* (close(client), the accumulator discarded) only from read(), by a read  *)
(* that returned zero or less; no step that handles a line ends it.        *)
(***************************************************************************)
C10_EndsOnlyByRead ==
    [][\A c \in Conns :
          (pc[c] # "closed" /\ pc'[c] = "closed") => (pc[c] = "read" /\ cmd'[c] = <<>>)]_vars
\* the handler was handed "SHOW" and the unknown "FOO", went on reading,
\* and ended at the EOF that followed
C10_Witness ==
    /\ pc["c1"] = "closed"
    /\ dispatched["c1"] = <<SHOW_, FOO_>>
    /\ reads["c1"] = 1
(***************************************************************************)
(* C11  BRIGHT v sets brightness: for v with a '.', v as a fraction,       *)
(* clamped to [0,1]; otherwise the integer v, as v/100 when v > 1 and as v *)
(* itself (clamped to [0,1]) when v <= 1.  BRIGHT 80 and BRIGHT 0.8 both   *)
(* set 0.8, and brightness is always within [0,1].                         *)
(***************************************************************************)
\* the value, in 1/Milli, of the numeral w (sign, digits, '.', digits)
NumeralMilli(w) ==
    LET body == Sign(w).rest
        dot  == IF \E i \in 1..Len(body) : body[i] = "."
                THEN CHOOSE i \in 1..Len(body) : body[i] = "." ELSE Len(body) + 1
        v    == Milli * DigitsVal(SubSeq(body, 1, dot - 1))
                + FracMilli(SubSeq(body, dot + 1, Len(body)))
    IN  IF Sign(w).neg THEN -v ELSE v
\* the brightness the command table gives for the argument w
ExpectedBright(w) ==
    LET v == NumeralMilli(w)
    IN  IF \E i \in 1..Len(w) : w[i] = "." THEN Clamp(v, 0, Milli)
        ELSE IF v > Milli THEN Clamp(v \div 100, 0, Milli)
        ELSE Clamp(v, 0, Milli)
\* c is handling a BRIGHT line with a numeral
InBright(c) ==
    /\ pc[c] = "call"
    /\ Len(Words(line[c])) >= 2
    /\ Words(line[c])[1] = BRIGHT_
    /\ IsDecNumeral(Words(line[c])[2])
InPix(c) ==
    /\ pc[c] = "call"
    /\ Len(Words(line[c])) >= 5
    /\ Words(line[c])[1] = PIX_
    /\ \A k \in 2..5 : IsIntNumeral(Words(line[c])[k])
\* the arguments of that line: <<i, r, g, b>>
PixArgs(c) == [k \in 1..4 |-> NumeralMilli(Words(line[c])[k + 1]) \div Milli]
\* the thread of c takes a step of its call
CallStep(c) ==
    pc[c] = "call" /\ pc'[c] = "call" /\ prog[c] # <<>> /\ prog'[c] = Tail(prog[c])
PixelOnly ==
    [][\A c \in Conns :
          (InPix(c) /\ CallStep(c)) =>
              LET a == PixArgs(c)
              IN  IF a[1] \in 0..(NumLeds - 1)
                  THEN IF At(c, "setpix")
                       THEN lastFloatBuffer_' =
                                [i \in Idx |-> IF (i - 1) \div 3 = a[1]
                                               THEN a[((i - 1) % 3) + 2] * TUnit
                                               ELSE lastFloatBuffer_[i]]
                       ELSE UNCHANGED lastFloatBuffer_
                  ELSE UNCHANGED <<lastFloatBuffer_, buffer_>>]_vars
\* a call for an index outside [0, N) has no step that locks: it cannot wait
OutOfRangeReturns ==
    \A c \in Conns :
        (InPix(c) /\ PixArgs(c)[1] \notin 0..(NumLeds - 1)) => c \notin blocked
C12_SetPixel == PixelOnly /\ []OutOfRangeReturns
\* PIX 1 10 20 30 has run to its end on a strip whose slot 0 holds another
\* colour: slot 1 holds (10, 20, 30), slot 0 is as it was
C12_Witness ==
    /\ pc["c1"] = "call"
    /\ line["c1"] = Take(LnPix1, Len(LnPix1) - 1)
    /\ prog["c1"] = <<>>
    /\ lastFloatBuffer_[1] # 0
    /\ lastFloatBuffer_[4] = 10 * TUnit
    /\ lastFloatBuffer_[5] = 20 * TUnit
    /\ lastFloatBuffer_[6] = 30 * TUnit
(***************************************************************************)
(* C13  setGamma(g) with g <= 0.01 is ignored; with g > 0.01 the table is  *)
(* rebuilt for g and the output is reshaped with it before the lock is     *)
(* released: a GAMMA whose setGamma has rebuilt the table goes on to the   *)
(* reshape and is never left waiting in front of it.                       *)
(***************************************************************************)
\* c is handling a GAMMA line with a numeral
InGamma(c) ==
    /\ pc[c] = "call"
    /\ Len(Words(line[c])) >= 2
    /\ Words(line[c])[1] = GAMMA_
    /\ IsDecNumeral(Words(line[c])[2])
\* the table is the one of the current gamma, entry for entry
TableOfGamma == gammaLUT_ = [i \in 1..256 |-> GammaEntry(i - 1, gamma_)]
C13_GammaReshapes ==
    \A c \in Conns :
        InGamma(c) =>
            /\ TableOfGamma
            /\ c \notin blocked
(***************************************************************************)
(* C14  SMOOTH a stores a clamped to [0,1] and changes nothing else: no   *)
(* step of the call changes target, output, table, gamma or brightness,   *)
(* none is a reshape or a bus write, and the store leaves                 *)
(* smoothingAlpha_ = clamp(a, 0, 1).                                      *)
(***************************************************************************)
\* c is handling a SMOOTH line with a numeral
InSmooth(c) ==
    /\ pc[c] = "call"
    /\ Len(Words(line[c])) >= 2
    /\ Words(line[c])[1] = SMOOTH_
    /\ IsDecNumeral(Words(line[c])[2])
C14_SmoothStoresOnly ==
    [][\A c \in Conns :
          (InSmooth(c) /\ CallStep(c)) =>
              /\ prog[c][1].op \in {"lock", "setalpha", "unlock"}
              /\ UNCHANGED <<lastFloatBuffer_, buffer_, gammaLUT_, gamma_,
                             brightness_, tx, sent>>
              /\ IF prog[c][1].op = "setalpha"
                 THEN smoothingAlpha_' =
                          Clamp(NumeralMilli(Words(line[c])[2]), 0, Milli)
                 ELSE UNCHANGED smoothingAlpha_]_vars
\* SMOOTH 2 has run to its end and left the factor at 1
C14_Witness ==
    /\ pc["c1"] = "call"
    /\ line["c1"] = Take(LnSmooth2, Len(LnSmooth2) - 1)
    /\ prog["c1"] = <<>>
    /\ "c1" \notin blocked
    /\ mutex_.owner = None
    /\ smoothingAlpha_ = Milli
(***************************************************************************)
(* C15  With gamma = 1, brightness = 1 and alpha = 1, COLOR r g b with     *)
(* r, g, b in 0..255 leaves output = (r, g, b) for every LED and writes    *)
(* exactly that frame to the bus: at the end of the call the output is     *)
(* that frame and the frames the call has written are that frame, once.    *)
(***************************************************************************)
\* c is handling a COLOR line with three numerals in 0..255
InColor(c) ==
    /\ pc[c] = "call"
    /\ Len(Words(line[c])) >= 4
    /\ Words(line[c])[1] = COLOR_
    /\ \A k \in 2..4 :
          /\ IsIntNumeral(Words(line[c])[k])
          /\ NumeralMilli(Words(line[c])[k]) \div Milli \in 0..255
\* (r, g, b) of that line, once for every LED
ColorFrame(c) ==
    [i \in Idx |-> NumeralMilli(Words(line[c])[((i - 1) % 3) + 2]) \div Milli]
\* gamma, brightness and the smoothing factor are all 1
AllOne == gamma_ = Milli /\ brightness_ = Milli /\ smoothingAlpha_ = Milli
C15_ColorEndToEnd ==
    \A c \in Conns :
        (InColor(c) /\ AllOne /\ prog[c] = <<>> /\ c \notin blocked) =>
            /\ buffer_ = ColorFrame(c)
            /\ sent[c] = <<ColorFrame(c)>>
\* COLOR 100 150 200 has run to its end with gamma, brightness, alpha at 1
C15_Witness ==
    /\ pc["c1"] = "call"
    /\ line["c1"] = Take(LnColor2, Len(LnColor2) - 1)
    /\ prog["c1"] = <<>>
    /\ AllOne
    /\ buffer_ = [i \in Idx |-> <<100, 150, 200>>[((i - 1) % 3) + 1]]
    /\ sent["c1"] = <<buffer_>>
(***************************************************************************)
(* C16  doSmoothing with a constant input of the length of the strip moves *)
(* every target toward the input and never past it; with alpha = 1 the     *)
(* target is the input after one step, with alpha = 0 it never changes.    *)
(* The distance of a channel shrinks at a step whenever alpha times the    *)
(* distance is more than half of the smallest step the target can take     *)
(* (2^-16 at 255); below that the step is lost in rounding and the target  *)
(* stays where it is, short of the input.                                  *)
(***************************************************************************)
Abs(x) == IF x < 0 THEN -x ELSE x
\* main is at the EMA loop of a doSmoothing whose buffer has the length of
\* the strip, and takes it
SmoothStep ==
    /\ At("main", "smooth")
    /\ Len(Arg("main")) = Size
    /\ prog'["main"] = Tail(prog["main"])
\* the distance of channel i from the input, before and after the step
Dist(i) == Abs(Arg("main")[i] * TUnit - lastFloatBuffer_[i])
DistAfter(i) == Abs(Arg("main")[i] * TUnit - lastFloatBuffer_'[i])
C16_EmaTowardInput ==
    [][SmoothStep =>
          \A i \in Idx :
              /\ DistAfter(i) <= Dist(i)
              /\ lastFloatBuffer_[i] <= Arg("main")[i] * TUnit
                     => lastFloatBuffer_'[i] <= Arg("main")[i] * TUnit
              /\ lastFloatBuffer_[i] >= Arg("main")[i] * TUnit
                     => lastFloatBuffer_'[i] >= Arg("main")[i] * TUnit
              /\ smoothingAlpha_ = Milli => DistAfter(i) = 0
              /\ smoothingAlpha_ = 0 => lastFloatBuffer_'[i] = lastFloatBuffer_[i]
              /\ (smoothingAlpha_ > 0 /\ Dist(i) > Milli \div (2 * smoothingAlpha_))
                     => DistAfter(i) < Dist(i)]_vars
\* with alpha = 0.25 and the input 255 the first channel has come, from 0,
\* to the last value below 255 and the next step is about to be taken
C16_Witness ==
    /\ At("main", "smooth")
    /\ Len(Arg("main")) = Size
    /\ Arg("main")[1] = 255
    /\ smoothingAlpha_ = DefaultAlpha
    /\ lastFloatBuffer_[1] = 255 * TUnit - 1
\* the claim as stated: for alpha in (0, 1) the distance of every channel
\* that is not yet at the input shrinks at every step
C16_ShrinksEveryStep ==
    [][SmoothStep =>
          \A i \in Idx :
              (smoothingAlpha_ \in 1..(Milli - 1) /\ Dist(i) > 0)
                  => DistAfter(i) < Dist(i)]_vars
(***************************************************************************)
(* C17  applyGammaAndBrightness is idempotent and touches only the output: *)
(* a step of its loop changes no target, table, gamma, brightness or       *)
(* smoothing factor and no byte but its own, and leaves a byte that is     *)
(* already the shape of the current state as it is; the frame SHOW writes  *)
(* is the shape of the current target, table and brightness, the same for  *)
(* every SHOW on an unchanged state.                                       *)
(***************************************************************************)
\* t takes one step of the loop of applyGammaAndBrightness
ShapeStep(t) == At(t, "shape") /\ prog'[t] = Tail(prog[t])
\* c is handling a SHOW line
InShow(c) == pc[c] = "call" /\ Words(line[c]) = <<SHOW_>>
\* the output a reshape of the current state gives
ShapeOfState == [i \in Idx |-> ShapeByte(lastFloatBuffer_[i], gammaLUT_, brightness_)]
C17_ReshapeIdempotent ==
    [][/\ \A t \in Callers :
             ShapeStep(t) =>
                 /\ UNCHANGED <<lastFloatBuffer_, gammaLUT_, gamma_, brightness_,
                                smoothingAlpha_>>
                 /\ \A j \in Idx \ {Arg(t)[1]} : buffer_'[j] = buffer_[j]
                 /\ buffer_[Arg(t)[1]] = ShapeOfState[Arg(t)[1]]
                        => buffer_' = buffer_
       /\ \A c \in Conns :
             (InShow(c) /\ CallStep(c)) =>
                 /\ UNCHANGED <<lastFloatBuffer_, gammaLUT_, gamma_, brightness_,
                                smoothingAlpha_>>
                 /\ sent'[c] # sent[c] => sent'[c] = Append(sent[c], ShapeOfState)]_vars
\* after a COLOR, a SHOW has run to its end: it wrote one frame, the shape
\* of the state, which is the output and is not a dark one
C17_Witness ==
    /\ InShow("c1")
    /\ prog["c1"] = <<>>
    /\ reads["c1"] = 2
    /\ sent["c1"] = <<ShapeOfState>>
    /\ buffer_ = ShapeOfState
    /\ buffer_[1] > 0
(***************************************************************************)
(* C18  After a step of the reshape the output byte is in 0..255 and is    *)
(* no greater than the gamma-table value of its clamped, rounded target,   *)
(* for every brightness in [0,1]; with brightness = 0 the byte is 0        *)
(* whatever the target is.                                                 *)
(***************************************************************************)
\* the index into the table for element i: the target clamped to 0..255 and
\* rounded to the nearest
TableIndex(i) ==
    (Clamp(lastFloatBuffer_[i], 0, 255 * TUnit) + (TUnit \div 2)) \div TUnit
C19_FrameIsSnapshot ==
    \A t \in Callers : Len(tx[t]) = Size => tx[t] \in snap[t]
(***************************************************************************)
(* C20  doSmoothing called with a buffer whose length is not that of the   *)
(* strip changes nothing: targets, output, table and configuration are as  *)
(* before the call, and the call returns normally: it goes on to release   *)
(* the lock it holds and waits for nothing.                                *)
(***************************************************************************)
\* main is at the size test of a doSmoothing whose buffer has not the length
\* of the strip, and takes it
MismatchStep ==
    /\ At("main", "smooth")
    /\ Len(Arg("main")) # Size
    /\ prog'["main"] = Tail(prog["main"])
C20_MismatchIgnored ==
    [][MismatchStep =>
          /\ UNCHANGED <<lastFloatBuffer_, buffer_, gammaLUT_, gamma_, brightness_,
                         smoothingAlpha_, spiFd_>>
          /\ prog'["main"][1] = UnlockI
          /\ mutex_' = [owner |-> "main", depth |-> 1]
          /\ blocked' = {}]_vars
\* with alpha = 1 and every target at 255, the first call with a buffer of
\* one byte has returned: the lock is free, the targets are still at 255
C20_Witness ==
    /\ Len(prog["main"]) = 3 * (MaxSmooth - 1)
    /\ prog["main"][2].arg = <<255>>
    /\ mutex_.owner = None
    /\ smoothingAlpha_ = Milli
    /\ \A i \in Idx : lastFloatBuffer_[i] = 255 * TUnit
====
